---- MODULE Spec2Model ----
(***************************************************************************)
(* NPC & place-name generator (hexa768/nomen).                             *)
(*                                                                         *)
(* Strings are sequences of one-character strings, so that str.replace,    *)
(* indexing and concatenation are modelled by what they do.                *)
(***************************************************************************)
EXTENDS Integers, Sequences, FiniteSets, TLC

VARIABLES
    raw, out, tpc, again,          \* _tidy_place_name: argument, local out, position, second result
    rng,                           \* the process-wide random source of module random
    src, n, pool, result, ppc,     \* _pick_unique: arguments, locals pool and result, position
    files,                         \* the data directory: plname_<type>.json and name_<type>.json
    cfg,                           \* the GeneratorConfig of the calls
    pc,                            \* position of the current generation call
    gen,                           \* the NPCPlaceGenerator object: place_data and name_data
    err,                           \* the exception that ended the call
    k, drawn,                      \* generate_place_name: k, and the positions of the sampled roots
    village, residents,            \* the bundle
    first,                         \* the outcome of the first generation call on these files
    prev,                          \* the data files and exception of the last failed constructor
    tape,                          \* the raw values the current call has drawn from the source
    gui,                           \* the GUI module's NPCPlaceGenerator, run on the same input
    gpick                          \* the GUI module's _pick_unique, run on the same input

tidyVars == <<raw, out, tpc, again>>
pickVars == <<src, n, pool, result, ppc>>
callVars == <<pc, gen, err, k, drawn, village, residents>>
guiVars == <<gui, gpick>>
genVars == <<files, cfg, pc, gen, err, k, drawn, village, residents, first, prev>>
vars == <<raw, out, tpc, again, rng, src, n, pool, result, ppc,
          files, cfg, pc, gen, err, k, drawn, village, residents, first, prev,
          tape, gui, gpick>>

\* no call of _tidy_place_name, or of _pick_unique, is under way
TidyIdle ==
    /\ raw = <<>>
    /\ out = <<>>
    /\ tpc = "idle"
    /\ again = <<>>

PickIdle ==
    /\ src = <<>>
    /\ n = 0
    /\ pool = <<>>
    /\ result = <<>>
    /\ ppc = "idle"

\* the tape of a call whose raw values nobody replays
NoTape == <<0 - 1>>

\* the tape with the raw values ds drawn next
Taped(ds) == IF tape = NoTape THEN tape ELSE tape \o ds

\* the GUI module's core has not run
GuiUnbuilt ==
    /\ gui = [pc |-> "idle", made |-> FALSE, place_roots |-> <<>>, male |-> <<>>,
              female |-> <<>>, err |-> "", used |-> 0, village |-> <<>>,
              residents |-> [male |-> <<>>, female |-> <<>>]]
    /\ gpick = [pc |-> "idle", result |-> <<>>, used |-> 0]

\* no raw value is taped, and the GUI module's core does not run
GuiIdle ==
    /\ tape = NoTape
    /\ GuiUnbuilt

(***************************************************************************)
(* Bounds of the model.                                                    *)
(***************************************************************************)
MaxRawLen == 5
MaxPool == 3
MaxPick == 5
MaxRoots == 3
MaxMale == 3
MaxFemale == 1
MaxSeed == 1

\* the letters the raw names of the tidy specification are built from
RawChars == {"a", "t", "o"}

(***************************************************************************)
(* Name Tidy: NPCPlaceGenerator._tidy_place_name                            *)
(***************************************************************************)
Alphabet ==
    << "a", "b", "c", "d", "e", "f", "g", "h", "i", "j", "k", "l", "m",
       "n", "o", "p", "q", "r", "s", "t", "u", "v", "w", "x", "y", "z" >>

UpperAlphabet ==
    << "A", "B", "C", "D", "E", "F", "G", "H", "I", "J", "K", "L", "M",
       "N", "O", "P", "Q", "R", "S", "T", "U", "V", "W", "X", "Y", "Z" >>

\* the first letters of "tt", "ll", "ss", "ff", "rr", "mm", "nn", in the listed order
Digraphs == << "t", "l", "s", "f", "r", "m", "n" >>

\* ch*n
Times(ch, count) == [i \in 1..count |-> ch]

\* str.upper() of one character
Upper(c) ==
    IF \E i \in 1..Len(Alphabet) : Alphabet[i] = c
    THEN UpperAlphabet[CHOOSE i \in 1..Len(Alphabet) : Alphabet[i] = c]
    ELSE c

RECURSIVE Replace(_, _, _)
\* str.replace(old, new): one left-to-right pass over non-overlapping matches
Replace(s, old, new) ==
    IF Len(s) < Len(old) THEN s
    ELSE IF SubSeq(s, 1, Len(old)) = old
         THEN new \o Replace(SubSeq(s, Len(old) + 1, Len(s)), old, new)
         ELSE <<Head(s)>> \o Replace(Tail(s), old, new)

RECURSIVE CollapseFrom(_, _)
\* the loop "for ch in alphabet: out = out.replace(ch*3, ch*2)" from letter i on
CollapseFrom(s, i) ==
    IF i > Len(Alphabet) THEN s
    ELSE CollapseFrom(Replace(s, Times(Alphabet[i], 3), Times(Alphabet[i], 2)), i + 1)

\* a run of a letter longer than two is rewritten down to two, whatever its length
RECURSIVE CollapseRunsWhole(_)
CollapseRunsWhole(s) ==
    IF Len(s) < 3 THEN s
    ELSE IF s[1] = s[2] /\ s[2] = s[3] /\ (\E i \in 1..Len(Alphabet) : Alphabet[i] = s[1])
         THEN CollapseRunsWhole(Tail(s))
         ELSE <<Head(s)>> \o CollapseRunsWhole(Tail(s))

CollapseTriples(s) == CollapseFrom(s, 1)

RECURSIVE SmoothFrom(_, _)
\* the loop "for seq in [...]: out = out.replace(seq, seq[0])" from digraph i on
SmoothFrom(s, i) ==
    IF i > Len(Digraphs) THEN s
    ELSE SmoothFrom(Replace(s, Times(Digraphs[i], 2), Times(Digraphs[i], 1)), i + 1)

\* the digraph step left out
SmoothSkipped(s) == s

SmoothDoubles(s) == SmoothFrom(s, 1)

\* out[0].upper() + out[1:]
Capitalize(s) == <<Upper(Head(s))>> \o Tail(s)

\* the whole of _tidy_place_name
Tidy(s) ==
    IF s = <<>> THEN s
    ELSE Capitalize(SmoothDoubles(CollapseTriples(s)))

(***************************************************************************)
(* The random source: module random's hidden generator.  Until it is       *)
(* seeded its state is unknown (seeded from the operating system) and a    *)
(* draw may give any value; once seeded the state is a number and every    *)
(* draw is a function of it.                                               *)
(***************************************************************************)
OsSeeded == [seeded |-> FALSE, st |-> 0]

\* the seeded generator: a full-period congruential generator modulo 8
RngStep(st) == (5 * st + 3) % 8

\* random.seed(seed)
Seed(seed) == [seeded |-> TRUE, st |-> seed % 8]

RECURSIVE Stream(_, _)
\* the next count raw values of the seeded generator in state st
Stream(st, count) == IF count <= 0 THEN <<>> ELSE <<st>> \o Stream(RngStep(st), count - 1)

RECURSIVE StepTimes(_, _)
StepTimes(st, count) == IF count <= 0 THEN st ELSE StepTimes(RngStep(st), count - 1)

\* every sequence of count raw values the source in state r may give next; of an
\* unseeded source the values below m, which give every outcome of a draw
\* below m or less
Draws(r, count, m) ==
    IF r.seeded THEN { Stream(r.st, count) }
    ELSE IF count <= 0 THEN { <<>> } ELSE [1..count -> 0..(m - 1)]

\* the source after count draws
After(r, count) == IF r.seeded THEN [r EXCEPT !.st = StepTimes(r.st, count)] ELSE r

\* random._randbelow(m) from one raw value
RandBelow(d, m) == d % m

(***************************************************************************)
(* Unique Picker: NPCPlaceGenerator._pick_unique                            *)
(***************************************************************************)
RECURSIVE SampleKeeping(_, _, _, _)
\* a selection loop that leaves the chosen entry in the pool
SampleKeeping(p, size, ds, i) ==
    IF i >= size THEN <<>>
    ELSE LET j == RandBelow(ds[i + 1], Len(p)) + 1
         IN  <<p[j]>> \o SampleKeeping(p, size, ds, i + 1)

RECURSIVE SampleFrom(_, _, _, _)
\* random.sample's selection loop from step i on (i counts from 0):
\*   j = randbelow(n - i); result[i] = pool[j]; pool[j] = pool[n - i - 1]
SampleFrom(p, size, ds, i) ==
    IF i >= size THEN <<>>
    ELSE LET j == RandBelow(ds[i + 1], Len(p) - i) + 1
         IN  <<p[j]>> \o SampleFrom([p EXCEPT ![j] = p[Len(p) - i]], size, ds, i + 1)

\* random.sample(population, size) for 0 <= size <= len(population)
Sample(population, size, ds) == SampleFrom(population, size, ds, 0)

\* the positions of a population of len entries that random.sample selects
SamplePositions(len, size, ds) == SampleFrom([i \in 1..len |-> i], size, ds, 0)

RECURSIVE Remove(_, _)
\* list.remove(x): drops the first entry equal to x
Remove(s, x) ==
    IF s = <<>> THEN s
    ELSE IF Head(s) = x THEN Tail(s)
    ELSE <<Head(s)>> \o Remove(Tail(s), x)

\* an iteration that forgets "pool.remove(choice)"
LoopBodyKeeping(source, p, res, d) ==
    LET refilled == IF p = <<>> THEN source ELSE p
        choice == refilled[RandBelow(d, Len(refilled)) + 1]
    IN  [pool |-> refilled, result |-> Append(res, choice)]

\* an iteration that refills the working copy one entry too early
LoopBodyEarlyRefill(source, p, res, d) ==
    LET refilled == IF Len(p) <= 1 THEN source ELSE p
        choice == refilled[RandBelow(d, Len(refilled)) + 1]
    IN  [pool |-> Remove(refilled, choice), result |-> Append(res, choice)]

\* one iteration of the while loop of _pick_unique, with raw value d
LoopBody(source, p, res, d) ==
    LET refilled == IF p = <<>> THEN source ELSE p
        choice == refilled[RandBelow(d, Len(refilled)) + 1]
    IN  [pool |-> Remove(refilled, choice), result |-> Append(res, choice)]

RECURSIVE PickLoop(_, _, _, _, _)
\* the while loop of _pick_unique, run to its end on the raw values ds
PickLoop(source, count, p, res, ds) ==
    IF Len(res) >= count THEN res
    ELSE LET b == LoopBody(source, p, res, Head(ds))
         IN  PickLoop(source, count, b.pool, b.result, Tail(ds))

\* the number of draws _pick_unique(source, count) makes
PickDraws(source, count) ==
    IF count <= Len(source) THEN (IF count < 0 THEN 0 ELSE count)
    ELSE IF source = <<>> THEN 0 ELSE count

\* _pick_unique raises (random.sample refuses a negative sample size)
PickRaises(source, count) == count <= Len(source) /\ count < 0

\* the list _pick_unique(source, count) returns on the raw values ds
PickUnique(source, count, ds) ==
    IF count <= Len(source) THEN Sample(source, count, ds)
    ELSE IF source = <<>> THEN <<>>
    ELSE PickLoop(source, count, source, <<>>, ds)

(***************************************************************************)
(* Data Loader: the data files, PlaceData.from_json, NameData.from_json,   *)
(* NPCPlaceGenerator._load_json                                            *)
(***************************************************************************)
\* a JSON value: a list of strings, or something that is not a list
List(items) == [is_list |-> TRUE, items |-> items]
NotAList == [is_list |-> FALSE, items |-> <<>>]

\* a JSON object with no key
NoKeys == [key \in {} |-> key]

\* a file that does not exist, one that is no JSON, one holding the document doc
Absent == [exists |-> FALSE, parses |-> FALSE, doc |-> NoKeys]
Garbage == [exists |-> TRUE, parses |-> FALSE, doc |-> NoKeys]
Holding(doc) == [exists |-> TRUE, parses |-> TRUE, doc |-> doc]

NameAl == <<"A", "l">>
NameBo == <<"B", "o">>
NameCy == <<"C", "y">>

RootAt == <<"a", "t">>
RootTo == <<"t", "o">>
RootOn == <<"o", "n">>

PlaceFiles ==
    { Absent,
      Garbage,
      Holding("nordic" :> ("place_roots" :> List(<<RootAt, RootTo>>))),
      Holding("default" :> NoKeys),
      Holding("default" :> ("place_roots" :> NotAList)),
      Holding("default" :> ("place_roots" :> List(<<>>))) }

GoodPlaceFiles ==
    { Holding("default" :> ("place_roots" :> List(<<RootAt, RootTo>>))),
      Holding("default" :> ("place_roots" :> List(<<RootAt, RootTo, RootOn>>))) }

GoodNameFile ==
    Holding("default" :> ("male" :> List(<<NameAl, NameBo>>) @@ "female" :> List(<<NameBo>>)))

NameFiles ==
    { Absent,
      Garbage,
      Holding("default" :> ("female" :> List(<<NameBo>>))),
      Holding("default" :> ("male" :> List(<<NameAl>>))),
      Holding("default" :> ("male" :> NotAList @@ "female" :> List(<<NameBo>>))),
      Holding("default" :> ("male" :> List(<<NameAl>>) @@ "female" :> List(<<>>))) }

\* the data directories of the model: a bad place file, or a good one with a
\* bad or a good name file
DataDirs ==
    { [place |-> f, name |-> GoodNameFile] : f \in PlaceFiles \cup GoodPlaceFiles }
    \cup { [place |-> f, name |-> g] : f \in GoodPlaceFiles, g \in NameFiles }

\* the data directories of the generation calls: the good ones, one with a
\* place file that is no JSON, one with no name file
GenDirs ==
    { [place |-> f, name |-> GoodNameFile] : f \in GoodPlaceFiles \cup {Garbage} }
    \cup { [place |-> f, name |-> Absent] : f \in GoodPlaceFiles }

\* what a step gives: a value, or the exception it raises
Returns(value) == [raises |-> "", value |-> value]
Raises(kind) == [raises |-> kind, value |-> <<>>]

\* _load_json(path)
LoadJson(file) ==
    IF ~file.exists THEN Raises("FileNotFoundError")
    ELSE IF ~file.parses THEN Raises("ValueError")
    ELSE Returns(file.doc)

\* PlaceData.from_json(obj, kind)
PlaceFromJson(obj, kind) ==
    IF kind \notin DOMAIN obj \/ "place_roots" \notin DOMAIN obj[kind]
    THEN Raises("KeyError")
    ELSE LET roots == obj[kind]["place_roots"]
         IN  IF ~roots.is_list \/ roots.items = <<>>
             THEN Raises("ValueError")
             ELSE Returns(roots.items)

\* NameData.from_json(obj, kind)
NameFromJson(obj, kind) ==
    IF kind \notin DOMAIN obj \/ "male" \notin DOMAIN obj[kind]
          \/ "female" \notin DOMAIN obj[kind]
    THEN Raises("KeyError")
    ELSE LET male == obj[kind]["male"]
             female == obj[kind]["female"]
         IN  IF ~male.is_list \/ ~female.is_list THEN Raises("ValueError")
             ELSE IF male.items = <<>> \/ female.items = <<>> THEN Raises("ValueError")
             ELSE Returns([male |-> male.items, female |-> female.items])

\* _load_place_data(path, kind)
LoadPlaceData(file, kind) ==
    LET obj == LoadJson(file)
    IN  IF obj.raises # "" THEN obj ELSE PlaceFromJson(obj.value, kind)

\* _load_name_data(path, kind)
LoadNameData(file, kind) ==
    LET obj == LoadJson(file)
    IN  IF obj.raises # "" THEN obj ELSE NameFromJson(obj.value, kind)

(***************************************************************************)
(* Bundle Generator: GeneratorConfig and NPCPlaceGenerator                 *)
(***************************************************************************)
\* GeneratorConfig()
DefaultConfig ==
    [place_type |-> "default", name_type |-> "default", num_male |-> 5, num_female |-> 5,
     min_roots |-> 2, max_roots |-> 3, has_seed |-> FALSE, seed |-> 0]

\* the configurations of the model; seed is None where has_seed is FALSE
Configs ==
    { [place_type |-> "default", name_type |-> "default", num_male |-> nm, num_female |-> nf,
       min_roots |-> lo, max_roots |-> hi, has_seed |-> hs, seed |-> sd] :
         nm \in (0 - 1)..MaxMale, nf \in (0 - 1)..MaxFemale,
         lo \in 1..MaxRoots, hi \in 1..MaxRoots,
         hs \in BOOLEAN, sd \in 0..MaxSeed }
    \ { c \in [place_type : {"default"}, name_type : {"default"},
               num_male : (0 - 1)..MaxMale, num_female : (0 - 1)..MaxFemale,
               min_roots : 1..MaxRoots, max_roots : 1..MaxRoots,
               has_seed : {FALSE}, seed : 1..MaxSeed] : TRUE }

NoGen == [made |-> FALSE, place_roots |-> <<>>, male |-> <<>>, female |-> <<>>]
NoResidents == [male |-> <<>>, female |-> <<>>]

\* a reseeding that takes the seed 0 for no seed ("if cfg.seed:")
ReseedIfTruthy(r, c) == IF c.has_seed /\ c.seed # 0 THEN Seed(c.seed) ELSE r

\* "if cfg.seed is not None: random.seed(cfg.seed)"
Reseed(r, c) == IF c.has_seed THEN Seed(c.seed) ELSE r

RECURSIVE Join(_)
\* "".join(roots)
Join(parts) == IF parts = <<>> THEN <<>> ELSE Head(parts) \o Join(Tail(parts))

\* a place name that is left as joined
PlaceNameUntidied(roots) == Join(roots)

\* "raw = "".join(roots); return self._tidy_place_name(raw)"
PlaceName(roots) == Tidy(Join(roots))

\* random.randint(a, b) from one raw value, for a <= b
RandInt(a, b, d) == a + RandBelow(d, b - a + 1)

\* a resident string with the two names the wrong way round
FormatSwapped(name, place) == place \o <<" ", "o", "f", " ">> \o name

\* f"{m} of {village}"
Format(name, place) == name \o <<" ", "o", "f", " ">> \o place

\* [f"{m} of {village}" for m in names]
FormatAll(names, place) == [i \in 1..Len(names) |-> Format(names[i], place)]

\* no generation call is under way and none has been made
GenIdle ==
    /\ files = [place |-> Absent, name |-> Absent]
    /\ cfg = DefaultConfig
    /\ pc = "idle"
    /\ gen = NoGen
    /\ err = ""
    /\ k = 0
    /\ drawn = <<>>
    /\ village = <<>>
    /\ residents = NoResidents
    /\ first = <<>>
    /\ prev = <<>>

Init ==
    /\ files \in GenDirs
    /\ cfg \in Configs
    /\ pc = "idle"
    /\ gen = NoGen
    /\ err = ""
    /\ k = 0
    /\ drawn = <<>>
    /\ village = <<>>
    /\ residents = NoResidents
    /\ first = <<>>
    /\ prev = <<>>
    /\ rng = OsSeeded
    /\ TidyIdle
    /\ PickIdle
    /\ GuiIdle

\* NPCPlaceGenerator(cfg): reseed, then load the place data, then the name data
Construct ==
    /\ pc = "idle"
    /\ rng' = Reseed(rng, cfg)
    /\ LET place == LoadPlaceData(files.place, cfg.place_type)
           names == LoadNameData(files.name, cfg.name_type)
       IN  IF place.raises # ""
           THEN /\ pc' = "failed"
                /\ err' = place.raises
                /\ gen' = NoGen
           ELSE IF names.raises # ""
           THEN /\ pc' = "failed"
                /\ err' = names.raises
                /\ gen' = NoGen
           ELSE /\ pc' = "constructed"
                /\ err' = ""
                /\ gen' = [made |-> TRUE, place_roots |-> place.value,
                           male |-> names.value.male, female |-> names.value.female]
    /\ UNCHANGED <<files, cfg, k, drawn, village, residents, first, prev, tidyVars, pickVars,
                   tape, guiVars>>

\* generate_place_name(): randint raises for an empty range, sample for a
\* size that is negative or larger than the population
GeneratePlaceName ==
    /\ pc = "constructed"
    /\ IF cfg.min_roots > cfg.max_roots
       THEN /\ pc' = "failed"
            /\ err' = "ValueError"
            /\ UNCHANGED <<rng, k, drawn, village, tape>>
       ELSE \E d \in Draws(rng, 1, cfg.max_roots - cfg.min_roots + 1) :
              LET count == RandInt(cfg.min_roots, cfg.max_roots, d[1])
                  after == After(rng, 1)
              IN  /\ k' = count
                  /\ IF count > Len(gen.place_roots) \/ count < 0
                     THEN /\ pc' = "failed"
                          /\ err' = "ValueError"
                          /\ rng' = after
                          /\ tape' = Taped(d)
                          /\ UNCHANGED <<drawn, village>>
                     ELSE \E ds \in Draws(after, count, Len(gen.place_roots)) :
                            /\ drawn' = SamplePositions(Len(gen.place_roots), count, ds)
                            /\ village' = PlaceName(Sample(gen.place_roots, count, ds))
                            /\ rng' = After(after, count)
                            /\ tape' = Taped(d \o ds)
                            /\ pc' = "named"
                            /\ err' = ""
    /\ UNCHANGED <<files, cfg, gen, residents, first, prev, tidyVars, pickVars, guiVars>>

\* generate_residents(village), and the return of generate_bundle()
GenerateResidents ==
    /\ pc = "named"
    /\ IF PickRaises(gen.male, cfg.num_male)
       THEN /\ pc' = "failed"
            /\ err' = "ValueError"
            /\ UNCHANGED <<rng, residents, tape>>
       ELSE \E dm \in Draws(rng, PickDraws(gen.male, cfg.num_male), Len(gen.male)) :
              LET males == PickUnique(gen.male, cfg.num_male, dm)
                  after == After(rng, PickDraws(gen.male, cfg.num_male))
              IN  IF PickRaises(gen.female, cfg.num_female)
                  THEN /\ pc' = "failed"
                       /\ err' = "ValueError"
                       /\ rng' = after
                       /\ tape' = Taped(dm)
                       /\ UNCHANGED residents
                  ELSE \E df \in Draws(after, PickDraws(gen.female, cfg.num_female),
                                       Len(gen.female)) :
                         LET females == PickUnique(gen.female, cfg.num_female, df)
                         IN  /\ residents' = [male |-> FormatAll(males, village),
                                              female |-> FormatAll(females, village)]
                             /\ rng' = After(after, PickDraws(gen.female, cfg.num_female))
                             /\ tape' = Taped(dm \o df)
                             /\ pc' = "done"
                             /\ err' = ""
    /\ UNCHANGED <<files, cfg, gen, k, drawn, village, first, prev, tidyVars, pickVars, guiVars>>

\* other code of the process draws from the shared random source between two calls
ForeignDraw ==
    /\ pc = "idle"
    /\ rng' = After(rng, 1)
    /\ UNCHANGED <<genVars, tidyVars, pickVars, tape, guiVars>>

\* how the current call ended: its exception, or its bundle
Outcome == [ended |-> pc, err |-> err, village |-> village, residents |-> residents]

\* the caller takes the bundle or the exception, and the generator object is dropped
CallEnds ==
    /\ pc \in {"done", "failed"}
    /\ first' = IF first = <<>> THEN <<Outcome>> ELSE first
    /\ prev' = IF pc = "failed" /\ ~gen.made THEN <<[files |-> files, err |-> err]>> ELSE prev
    /\ pc' = "idle"
    /\ gen' = NoGen
    /\ err' = ""
    /\ k' = 0
    /\ drawn' = <<>>
    /\ village' = <<>>
    /\ residents' = NoResidents
    /\ tape' = IF tape = NoTape THEN tape ELSE <<>>
    /\ UNCHANGED <<files, cfg, rng, tidyVars, pickVars, guiVars>>

\* the data files are replaced between two calls
ReplaceFiles ==
    /\ pc = "idle"
    /\ files' \in DataDirs \ {files}
    /\ first' = <<>>
    /\ UNCHANGED <<cfg, callVars, prev, rng, tidyVars, pickVars, tape, guiVars>>

Next ==
    \/ Construct
    \/ GeneratePlaceName
    \/ GenerateResidents
    \/ ForeignDraw
    \/ CallEnds

Spec == Init /\ [][Next]_vars

\* the loader specification: calls with the default configuration and the
\* seed 0, the data files replaced between the calls
LoadInit ==
    /\ files \in DataDirs
    /\ cfg = [DefaultConfig EXCEPT !.has_seed = TRUE]
    /\ pc = "idle"
    /\ gen = NoGen
    /\ err = ""
    /\ k = 0
    /\ drawn = <<>>
    /\ village = <<>>
    /\ residents = NoResidents
    /\ first = <<>>
    /\ prev = <<>>
    /\ rng = OsSeeded
    /\ TidyIdle
    /\ PickIdle
    /\ GuiIdle

LoadNext ==
    \/ Next
    \/ ReplaceFiles

SpecLoad == LoadInit /\ [][LoadNext]_vars

(***************************************************************************)
(* The picker specification: one call of _pick_unique on any pool of up to *)
(* MaxPool names and any count up to MaxPick, its loop taken one           *)
(* iteration at a time, the random source unseeded.                        *)
(***************************************************************************)
PickNames == {NameAl, NameBo, NameCy}

RECURSIVE ListsUpTo(_, _)
ListsUpTo(items, len) ==
    IF len = 0 THEN { <<>> }
    ELSE LET shorter == ListsUpTo(items, len - 1)
         IN  shorter \cup { Append(s, x) : x \in items, s \in { t \in shorter : Len(t) = len - 1 } }

PickInit ==
    /\ src \in ListsUpTo(PickNames, MaxPool)
    /\ n \in (0 - 1)..MaxPick
    /\ pool = <<>>
    /\ result = <<>>
    /\ ppc = "entry"
    /\ rng = OsSeeded
    /\ TidyIdle
    /\ GenIdle
    /\ GuiIdle

\* "if n <= len(src): return random.sample(src, n)"
PickSample ==
    /\ ppc = "entry"
    /\ n <= Len(src)
    /\ n >= 0
    /\ \E ds \in Draws(rng, n, Len(src)) :
          /\ result' = Sample(src, n, ds)
          /\ rng' = After(rng, n)
          /\ tape' = Taped(ds)
    /\ ppc' = "returned"
    /\ UNCHANGED <<src, n, pool, tidyVars, genVars, guiVars>>

\* random.sample raises ValueError for a negative sample size
PickSampleRaises ==
    /\ ppc = "entry"
    /\ n <= Len(src)
    /\ n < 0
    /\ ppc' = "raised"
    /\ UNCHANGED <<src, n, pool, result, rng, tidyVars, genVars, tape, guiVars>>

\* "result = []; if src: pool = src[:]", and the return of [] when src is empty
PickEnterLoop ==
    /\ ppc = "entry"
    /\ n > Len(src)
    /\ result' = <<>>
    /\ pool' = src
    /\ ppc' = IF src # <<>> THEN "loop" ELSE "returned"
    /\ UNCHANGED <<src, n, rng, tidyVars, genVars, tape, guiVars>>

\* one iteration: "if not pool: pool = src[:]; choice = random.choice(pool);
\* pool.remove(choice); result.append(choice)"
PickIterate ==
    /\ ppc = "loop"
    /\ Len(result) < n
    /\ \E ds \in Draws(rng, 1, Len(src)) :
          LET b == LoopBody(src, pool, result, ds[1])
          IN  /\ pool' = b.pool
              /\ result' = b.result
              /\ rng' = After(rng, 1)
              /\ tape' = Taped(ds)
    /\ UNCHANGED <<src, n, ppc, tidyVars, genVars, guiVars>>

\* the loop condition fails: "return result"
PickReturn ==
    /\ ppc = "loop"
    /\ Len(result) >= n
    /\ ppc' = "returned"
    /\ UNCHANGED <<src, n, pool, result, rng, tidyVars, genVars, tape, guiVars>>

PickNext ==
    \/ PickSample
    \/ PickSampleRaises
    \/ PickEnterLoop
    \/ PickIterate
    \/ PickReturn

SpecPick == PickInit /\ [][PickNext]_vars

(***************************************************************************)
(* The tidy specification: one raw name, tidied step by step, and the      *)
(* tidied name tidied once more.                                           *)
(***************************************************************************)
RECURSIVE StringsUpTo(_, _)
StringsUpTo(chars, len) ==
    IF len = 0 THEN { <<>> }
    ELSE LET shorter == StringsUpTo(chars, len - 1)
         IN  shorter \cup { <<c>> \o s : c \in chars, s \in { t \in shorter : Len(t) = len - 1 } }

RawNames == StringsUpTo(RawChars, MaxRawLen)

TidyStart ==
    /\ raw \in RawNames
    /\ out = raw
    /\ tpc = "entry"
    /\ again = <<>>

TidyInit ==
    /\ TidyStart
    /\ rng = OsSeeded
    /\ PickIdle
    /\ GenIdle
    /\ GuiIdle

\* "if not raw: return raw"
TidyEmpty ==
    /\ tpc = "entry"
    /\ raw = <<>>
    /\ tpc' = "returned"
    /\ UNCHANGED <<raw, out, again>>
    /\ UNCHANGED <<rng, pickVars, genVars, tape, guiVars>>

TidyCollapse ==
    /\ tpc = "entry"
    /\ raw # <<>>
    /\ out' = CollapseTriples(out)
    /\ tpc' = "collapsed"
    /\ UNCHANGED <<raw, again>>
    /\ UNCHANGED <<rng, pickVars, genVars, tape, guiVars>>

TidySmooth ==
    /\ tpc = "collapsed"
    /\ out' = SmoothDoubles(out)
    /\ tpc' = "smoothed"
    /\ UNCHANGED <<raw, again>>
    /\ UNCHANGED <<rng, pickVars, genVars, tape, guiVars>>

TidyCapitalize ==
    /\ tpc = "smoothed"
    /\ out' = Capitalize(out)
    /\ tpc' = "returned"
    /\ UNCHANGED <<raw, again>>
    /\ UNCHANGED <<rng, pickVars, genVars, tape, guiVars>>

\* the tidied name is passed through _tidy_place_name a second time
TidyAgain ==
    /\ tpc = "returned"
    /\ again' = Tidy(out)
    /\ tpc' = "twice"
    /\ UNCHANGED <<raw, out>>
    /\ UNCHANGED <<rng, pickVars, genVars, tape, guiVars>>

TidyNext ==
    \/ TidyEmpty
    \/ TidyCollapse
    \/ TidySmooth
    \/ TidyCapitalize
    \/ TidyAgain

SpecTidy == TidyInit /\ [][TidyNext]_vars

(***************************************************************************)
(* The GUI module's embedded core: PlaceData, NameData and                 *)
(* NPCPlaceGenerator of npc_generator_gui.py.  It is run on the data       *)
(* files and configuration of the CLI call that has just ended, and on     *)
(* the raw values that call drew: a seeded configuration reseeds the       *)
(* source, so the values repeat; from an unseeded source the taped values  *)
(* are replayed, and a draw past the end of the tape is any value.         *)
(***************************************************************************)
\* the most pool positions a fresh raw value has to tell apart
FreshValues == 0..(MaxPool - 1)

\* dict.get(key, default)
GuiGet(obj, key, default) == IF key \in DOMAIN obj THEN obj[key] ELSE default

\* _load_json(path): json.load's JSONDecodeError is passed on as it is
GuiLoadJson(file) ==
    IF ~file.exists THEN Raises("FileNotFoundError")
    ELSE IF ~file.parses THEN Raises("JSONDecodeError")
    ELSE Returns(file.doc)

\* PlaceData.from_json(obj, kind): a missing tag or field reads as None
GuiPlaceFromJson(obj, kind) ==
    LET roots == GuiGet(GuiGet(obj, kind, NoKeys), "place_roots", NotAList)
    IN  IF ~roots.is_list \/ roots.items = <<>>
        THEN Raises("ValueError")
        ELSE Returns(roots.items)

\* NameData.from_json(obj, kind)
GuiNameFromJson(obj, kind) ==
    LET node == GuiGet(obj, kind, NoKeys)
        male == GuiGet(node, "male", NotAList)
        female == GuiGet(node, "female", NotAList)
    IN  IF ~male.is_list \/ ~female.is_list THEN Raises("ValueError")
        ELSE IF male.items = <<>> \/ female.items = <<>> THEN Raises("ValueError")
        ELSE Returns([male |-> male.items, female |-> female.items])

\* _load_place_data()
GuiLoadPlaceData(file, kind) ==
    LET obj == GuiLoadJson(file)
    IN  IF obj.raises # "" THEN obj ELSE GuiPlaceFromJson(obj.value, kind)

\* _load_name_data()
GuiLoadNameData(file, kind) ==
    LET obj == GuiLoadJson(file)
    IN  IF obj.raises # "" THEN obj ELSE GuiNameFromJson(obj.value, kind)

\* "if seed is not None: random.seed(seed)"
GuiReseed(r, c) == IF c.has_seed THEN Seed(c.seed) ELSE r

RECURSIVE GuiCollapseFrom(_, _)
\* "for ch in "abc...z": out = out.replace(ch*3, ch*2)" from letter i on
GuiCollapseFrom(s, i) ==
    IF i > Len(Alphabet) THEN s
    ELSE GuiCollapseFrom(Replace(s, Times(Alphabet[i], 3), Times(Alphabet[i], 2)), i + 1)

RECURSIVE GuiSmoothFrom(_, _)
\* "for seq in [...]: out = out.replace(seq, seq[0])" from digraph i on
GuiSmoothFrom(s, i) ==
    IF i > Len(Digraphs) THEN s
    ELSE GuiSmoothFrom(Replace(s, Times(Digraphs[i], 2), Times(Digraphs[i], 1)), i + 1)

\* _tidy_place_name(raw)
GuiTidy(s) ==
    IF s = <<>> THEN s
    ELSE LET collapsed == GuiSmoothFrom(GuiCollapseFrom(s, 1), 1)
         IN  <<Upper(Head(collapsed))>> \o Tail(collapsed)

\* the raw value number i of ds; past the end of ds it is not known yet
At(ds, i) == IF i <= Len(ds) THEN ds[i] ELSE 0

\* the count raw values of ds that follow the first at
Window(ds, at, count) == [i \in 1..count |-> At(ds, at + i)]

\* what a step that draws gives: as Returns and Raises, and the number of raw
\* values used up so far
Drew(value, at) == [raises |-> "", value |-> value, at |-> at]
Threw(kind, at) == [raises |-> kind, value |-> <<>>, at |-> at]

\* generate_place_name()
GuiGeneratePlaceName(c, roots, ds) ==
    IF c.min_roots > c.max_roots THEN Threw("ValueError", 0)
    ELSE LET count == RandInt(c.min_roots, c.max_roots, At(ds, 1))
         IN  IF count > Len(roots) THEN Threw("ValueError", 1)
             ELSE Drew(GuiTidy(Join(Sample(roots, count, Window(ds, 1, count)))), 1 + count)

\* an iteration of the GUI loop that forgets "pool.remove(choice)"
GuiLoopBodyKeeping(source, p, res, d) ==
    LET refilled == IF p = <<>> THEN source ELSE p
        choice == refilled[RandBelow(d, Len(refilled)) + 1]
    IN  [pool |-> refilled, result |-> Append(res, choice)]

\* one iteration of "while len(res) < n and src", with raw value d
GuiLoopBody(source, p, res, d) ==
    LET refilled == IF p = <<>> THEN source ELSE p
        choice == refilled[RandBelow(d, Len(refilled)) + 1]
    IN  [pool |-> Remove(refilled, choice), result |-> Append(res, choice)]

RECURSIVE GuiPickLoop(_, _, _, _, _, _)
\* "while len(res) < n and src: ..." run to its end, drawing from ds after at
GuiPickLoop(source, count, p, res, ds, at) ==
    IF ~(Len(res) < count /\ source # <<>>) THEN Drew(res, at)
    ELSE LET b == GuiLoopBody(source, p, res, At(ds, at + 1))
         IN  GuiPickLoop(source, count, b.pool, b.result, ds, at + 1)

\* _pick_unique(src, n), drawing from ds after at
GuiPickUnique(source, count, ds, at) ==
    IF count <= Len(source)
    THEN IF count < 0 THEN Threw("ValueError", at)
         ELSE Drew(Sample(source, count, Window(ds, at, count)), at + count)
    ELSE GuiPickLoop(source, count, source, <<>>, ds, at)

\* f"{m} of {village}"
GuiFormat(name, place) == name \o <<" ", "o", "f", " ">> \o place

\* generate(): the village, then the male names, then the female names
GuiGenerate(c, g, ds) ==
    LET place == GuiGeneratePlaceName(c, g.place_roots, ds)
    IN  IF place.raises # "" THEN place
        ELSE LET males == GuiPickUnique(g.male, c.num_male, ds, place.at)
             IN  IF males.raises # "" THEN males
                 ELSE LET females == GuiPickUnique(g.female, c.num_female, ds, males.at)
                      IN  IF females.raises # "" THEN females
                          ELSE Drew([village |-> place.value,
                                     residents |->
                                       [male |-> [i \in 1..Len(males.value) |->
                                                    GuiFormat(males.value[i], place.value)],
                                        female |-> [i \in 1..Len(females.value) |->
                                                    GuiFormat(females.value[i], place.value)]]],
                                    females.at)

\* the raw values that may follow ds: the next of the seeded stream, or any
Following(r, ds) ==
    IF r.seeded THEN { StepTimes(r.st, Len(ds)) } ELSE FreshValues

\* the raw values a GUI run starts from: none of a seeded source, else the tape
Replayed(r) == IF r.seeded THEN <<>> ELSE tape

RECURSIVE GuiGenerateRuns(_, _, _, _)
\* every outcome of generate() on raw values that begin with ds
GuiGenerateRuns(c, g, r, ds) ==
    LET run == GuiGenerate(c, g, ds)
    IN  IF run.at <= Len(ds) THEN { run }
        ELSE UNION { GuiGenerateRuns(c, g, r, Append(ds, d)) : d \in Following(r, ds) }

RECURSIVE GuiPickRuns(_, _, _, _)
\* every outcome of _pick_unique(source, count) on raw values that begin with ds
GuiPickRuns(source, count, r, ds) ==
    LET run == GuiPickUnique(source, count, ds, 0)
    IN  IF run.at <= Len(ds) THEN { run }
        ELSE UNION { GuiPickRuns(source, count, r, Append(ds, d)) : d \in Following(r, ds) }

\* the two cores are given the same input, and the raw values are taped: a
\* bundle call on any data directory and configuration, or a picker call on
\* any list and count
GuiInit ==
    \/ /\ files \in DataDirs
       /\ cfg \in Configs
       /\ pc = "idle"
       /\ gen = NoGen
       /\ err = ""
       /\ k = 0
       /\ drawn = <<>>
       /\ village = <<>>
       /\ residents = NoResidents
       /\ first = <<>>
       /\ prev = <<>>
       /\ rng = OsSeeded
       /\ TidyIdle
       /\ PickIdle
       /\ tape = <<>>
       /\ GuiUnbuilt
    \/ /\ src \in ListsUpTo(PickNames, MaxPool)
       /\ n \in (0 - 1)..MaxPick
       /\ pool = <<>>
       /\ result = <<>>
       /\ ppc = "entry"
       /\ rng = OsSeeded
       /\ TidyIdle
       /\ GenIdle
       /\ tape = <<>>
       /\ GuiUnbuilt

\* the CLI module's constructor and generate_bundle(), when no picker call runs
CliCall ==
    /\ ppc = "idle"
    /\ (Construct \/ GeneratePlaceName \/ GenerateResidents)

\* NPCPlaceGenerator(...) of the GUI module: reseed, then load the place data,
\* then the name data
GuiConstruct ==
    /\ ppc = "idle"
    /\ pc \in {"done", "failed"}
    /\ gui.pc = "idle"
    /\ rng' = GuiReseed(rng, cfg)
    /\ LET place == GuiLoadPlaceData(files.place, cfg.place_type)
           names == GuiLoadNameData(files.name, cfg.name_type)
       IN  IF place.raises # ""
           THEN gui' = [gui EXCEPT !.pc = "failed", !.err = place.raises]
           ELSE IF names.raises # ""
           THEN gui' = [gui EXCEPT !.pc = "failed", !.err = names.raises]
           ELSE gui' = [gui EXCEPT !.pc = "constructed", !.made = TRUE,
                                   !.place_roots = place.value,
                                   !.male = names.value.male,
                                   !.female = names.value.female]
    /\ UNCHANGED <<genVars, tidyVars, pickVars, tape, gpick>>

\* gen.generate() of the GUI module
GuiCallGenerate ==
    /\ gui.pc = "constructed"
    /\ \E run \in GuiGenerateRuns(cfg, gui, rng, Replayed(rng)) :
          /\ rng' = After(rng, run.at)
          /\ IF run.raises # ""
             THEN gui' = [gui EXCEPT !.pc = "failed", !.err = run.raises, !.used = run.at]
             ELSE gui' = [gui EXCEPT !.pc = "done", !.used = run.at,
                                     !.village = run.value.village,
                                     !.residents = run.value.residents]
    /\ UNCHANGED <<genVars, tidyVars, pickVars, tape, gpick>>

\* _pick_unique(src, n) of the GUI module, on the list and count of the CLI's call
GuiPick ==
    /\ ppc \in {"returned", "raised"}
    /\ gpick.pc = "idle"
    /\ \E run \in GuiPickRuns(src, n, rng, Replayed(rng)) :
          /\ rng' = After(rng, run.at)
          /\ gpick' = [pc |-> IF run.raises # "" THEN "raised" ELSE "returned",
                       result |-> run.value, used |-> run.at]
    /\ UNCHANGED <<genVars, tidyVars, pickVars, tape, gui>>

GuiNext ==
    \/ CliCall
    \/ GuiConstruct
    \/ GuiCallGenerate
    \/ PickNext
    \/ GuiPick

SpecGui == GuiInit /\ [][GuiNext]_vars

(***************************************************************************)
(* Claims about Name Tidy (checked under SpecTidy).                        *)
(***************************************************************************)
\* C1: after the triple step and before the digraph step, every maximal run of
\* three or more identical lowercase letters of the raw name, whatever its
\* length, has become exactly two letters; tidy("aaa") = "Aa" and
\* tidy("aaaa") = "Aa".
C1_EveryRunCollapsesToTwo ==
    /\ tpc = "collapsed" => out = CollapseRunsWhole(raw)
    /\ (tpc = "returned" /\ raw \in { <<"a", "a", "a">>, <<"a", "a", "a", "a">> })
          => out = <<"A", "a">>

\* C9: tidy is not idempotent: the raw name "atttt" is tidied to "Att", and
\* tidying "Att" again gives "At", a different name.
C9_TidyTwiceDiffers ==
    (tpc = "twice" /\ raw = <<"a", "t", "t", "t", "t">>)
        => /\ out = <<"A", "t", "t">>
           /\ again = <<"A", "t">>
           /\ again # out

C9_Witness ==
    /\ tpc = "twice"
    /\ raw = <<"a", "t", "t", "t", "t">>
    /\ again # out

(***************************************************************************)
(* Claims about the Unique Picker (checked under SpecPick).                *)
(***************************************************************************)
\* the number of entries of s equal to v
Count(s, v) == Cardinality({ i \in DOMAIN s : s[i] = v })

Values(s) == { s[i] : i \in DOMAIN s }

\* the entries of a can be taken from pairwise-distinct positions of b
FromDistinctPositions(a, b) == \A v \in Values(a) : Count(a, v) <= Count(b, v)

\* a is a permutation of b
Permutation(a, b) == Len(a) = Len(b) /\ FromDistinctPositions(a, b)

\* C2: for 0 <= n <= |pool| the call returns (it does not raise) exactly n
\* entries, taken from pairwise-distinct positions of the pool; for n = 0 the
\* result is empty, for the empty pool too.
C2_SampleWithinPool ==
    (ppc \in {"returned", "raised"} /\ 0 <= n /\ n <= Len(src))
        => /\ ppc = "returned"
           /\ Len(result) = n
           /\ FromDistinctPositions(result, src)
           /\ (n = 0 => result = <<>>)

C2_Witness ==
    /\ ppc = "returned"
    /\ n = 2
    /\ src = <<NameAl, NameBo, NameAl>>
    /\ result = <<NameAl, NameAl>>

C2_WitnessEmptyPool ==
    /\ ppc = "returned"
    /\ n = 0
    /\ src = <<>>
    /\ result = <<>>

\* C3 as stated: for a non-empty pool and n > |pool| the result has n entries,
\* every pool element appears at least floor(n/|pool|) times, and the largest
\* occurrence count exceeds the smallest by at most 1.
C3_BalancedByValue ==
    (ppc = "returned" /\ src # <<>> /\ n > Len(src))
        => /\ Len(result) = n
           /\ \A v \in Values(src) : Count(result, v) >= n \div Len(src)
           /\ \A v, w \in Values(src) : Count(result, v) - Count(result, w) <= 1

\* C3 amended: the result has n entries, all of the pool, and a string that
\* fills m positions of the pool appears at least m * floor(n/|pool|) and at
\* most m * (floor(n/|pool|) + 1) times: the balance is one of pool positions,
\* and for a pool of pairwise different strings it is the balance of C3.
C3_BalancedByPosition ==
    (ppc = "returned" /\ src # <<>> /\ n > Len(src))
        => /\ Len(result) = n
           /\ Values(result) \subseteq Values(src)
           /\ \A v \in Values(src) :
                 /\ Count(result, v) >= Count(src, v) * (n \div Len(src))
                 /\ Count(result, v) <= Count(src, v) * ((n \div Len(src)) + 1)

C3_Witness ==
    /\ ppc = "returned"
    /\ src = <<NameAl, NameAl, NameBo>>
    /\ n = 4
    /\ Count(result, NameAl) = 3
    /\ Count(result, NameBo) = 1

\* the b-th block of |pool| picks of the result, and the picks after the last whole block
Block(b) == SubSeq(result, (b - 1) * Len(src) + 1, b * Len(src))
LastBlock == SubSeq(result, (Len(result) \div Len(src)) * Len(src) + 1, Len(result))

\* in the loop the result is whole rounds, each a permutation of the pool, then
\* picks from pairwise-distinct positions; the working copy holds what the
\* current round has not drawn yet
RoundsSoFar ==
    (ppc \in {"loop", "returned"} /\ src # <<>> /\ n > Len(src))
        => /\ \A b \in 1..(Len(result) \div Len(src)) : Permutation(Block(b), src)
           /\ FromDistinctPositions(LastBlock, src)
           /\ IF LastBlock = <<>>
              THEN pool = (IF result = <<>> THEN src ELSE <<>>)
              ELSE Permutation(pool \o LastBlock, src)

\* an iteration draws from a fresh copy of the pool only when the working copy is empty
FreshCopyOnlyWhenExhausted ==
    (ppc = "loop" /\ result' # result /\ Len(pool') >= Len(pool)) => pool = <<>>

\* C10: at every step of the repeated-round loop the result is consecutive
\* blocks of |pool| picks, each a permutation of the whole pool, then a partial
\* block from pairwise-distinct positions, and a new round starts only when
\* the working copy is exhausted.
C10_RoundByRound == [] RoundsSoFar /\ [][FreshCopyOnlyWhenExhausted]_vars

C10_Witness ==
    /\ ppc = "loop"
    /\ Len(src) = 3
    /\ Len(result) = 5
    /\ Len(pool) = 1

(***************************************************************************)
(* Claims about the Bundle Generator (checked under Spec).                 *)
(***************************************************************************)
\* C4: with a seed in the config, the constructor leaves the random source in
\* the state of that seed, and every generation call on the same files and
\* config ends as the first one did (the same bundle, or the same exception),
\* whatever was drawn from the source before or between the calls.
C4_SameSeedSameBundle ==
    /\ (pc = "constructed" /\ cfg.has_seed) => rng = Seed(cfg.seed)
    /\ (pc \in {"done", "failed"} /\ cfg.has_seed /\ first # <<>>) => Outcome = first[1]

C4_Witness ==
    /\ pc = "done"
    /\ cfg.has_seed
    /\ first # <<>>
    /\ first[1].ended = "done"
    /\ Len(residents.male) = 3
    /\ Len(drawn) = 2

\* the root count range of the config is empty, or reaches past the loaded roots
BadRootRange ==
    \/ cfg.min_roots > cfg.max_roots
    \/ cfg.max_roots > Len(gen.place_roots)

\* C5: a generation call whose config has min_roots > max_roots, or max_roots
\* above the number of loaded roots, fails with a range error (ValueError) and
\* gives no village and no bundle, whatever root count is drawn.
C5_BadRangeAlwaysFails ==
    (gen.made /\ pc \in {"named", "done", "failed"} /\ BadRootRange)
        => /\ pc = "failed"
           /\ err = "ValueError"
           /\ village = <<>>
           /\ residents = NoResidents

\* C7: once the place name is generated, and so in every successful call, the
\* village is tidy of the k roots at the drawn positions, joined in draw order;
\* the positions are pairwise distinct and min_roots <= k <= max_roots.
C7_VillageFromDistinctRoots ==
    pc \in {"named", "done"}
        => /\ cfg.min_roots <= k
           /\ k <= cfg.max_roots
           /\ Len(drawn) = k
           /\ \A i \in 1..k : drawn[i] \in 1..Len(gen.place_roots)
           /\ \A i, j \in 1..k : i # j => drawn[i] # drawn[j]
           /\ village = Tidy(Join([i \in 1..k |-> gen.place_roots[drawn[i]]]))

C7_Witness ==
    /\ pc = "done"
    /\ k = 2
    /\ drawn = <<1, 2>>
    /\ village = <<"A", "t", "o">>

\* C8: in a bundle of a call with non-negative counts, residents.male has
\* num_male entries and residents.female num_female entries, each "<name> of
\* <village>" for a name of the male (female) list and the bundle's village.
C8_ResidentsOfVillage ==
    (pc = "done" /\ cfg.num_male >= 0 /\ cfg.num_female >= 0)
        => /\ Len(residents.male) = cfg.num_male
           /\ Len(residents.female) = cfg.num_female
           /\ \A i \in 1..Len(residents.male) :
                 \E m \in Values(gen.male) :
                    residents.male[i] = m \o <<" ", "o", "f", " ">> \o village
           /\ \A i \in 1..Len(residents.female) :
                 \E f \in Values(gen.female) :
                    residents.female[i] = f \o <<" ", "o", "f", " ">> \o village

\* a name of both lists is a resident in both results
C8_Witness ==
    /\ pc = "done"
    /\ village # <<>>
    /\ Len(residents.male) = 3
    /\ \E i \in 1..Len(residents.male), j \in 1..Len(residents.female) :
          residents.male[i] = residents.female[j]

(***************************************************************************)
(* Claims about the Data Loader (checked under SpecLoad).                  *)
(***************************************************************************)
\* the record of the tag lacks a required field, or holds no list or an empty list for it
RecordFault(file, tag, fields) ==
    /\ file.exists
    /\ file.parses
    /\ tag \in DOMAIN file.doc
    /\ \E field \in fields :
          \/ field \notin DOMAIN file.doc[tag]
          \/ ~file.doc[tag][field].is_list
          \/ file.doc[tag][field].items = <<>>

\* the first file the constructor cannot use is one with such a record
SchemaFault(dir) ==
    \/ RecordFault(dir.place, "default", {"place_roots"})
    \/ dir.place \in GoodPlaceFiles /\ RecordFault(dir.name, "default", {"male", "female"})

\* the first file the constructor cannot use is missing, or is no JSON
FileFault(dir) ==
    \/ ~dir.place.exists
    \/ ~dir.place.parses
    \/ dir.place \in GoodPlaceFiles /\ (~dir.name.exists \/ ~dir.name.parses)

\* C6: with a record that lacks a required field, or holds a non-list or an
\* empty list for it, the call fails and makes no generator and no bundle; the
\* exception is of the same kind as that of any other such call, and of
\* another kind than that of a call on a missing or an unparseable file.
C6_OneSchemaErrorKind ==
    SchemaFault(files)
        => /\ pc \in {"idle", "failed"}
           /\ ~gen.made
           /\ residents = NoResidents
           /\ (pc = "failed" /\ prev # <<>>)
                 => /\ SchemaFault(prev[1].files) => err = prev[1].err
                    /\ FileFault(prev[1].files) => err # prev[1].err

(***************************************************************************)
(* Claims about the GUI module's core (checked under SpecGui).             *)
(***************************************************************************)
\* C11: on the same data files, the same configuration and the same raw
\* draws, the GUI module's constructor-plus-generate() fails exactly when the
\* CLI module's constructor-plus-generate_bundle() fails, and otherwise gives
\* the same village and the same male and female lists in the same order;
\* likewise the two _pick_unique fail together or return the same list, for
\* every count from -1 up, n = 0, n > |pool| and the empty pool included.
C11_GuiCoreMatchesCli ==
    /\ gui.pc \in {"done", "failed"} =>
          /\ (gui.pc = "failed") <=> (pc = "failed")
          /\ gui.pc = "done" =>
                /\ gui.village = village
                /\ gui.residents.male = residents.male
                /\ gui.residents.female = residents.female
    /\ gpick.pc \in {"returned", "raised"} =>
          /\ (gpick.pc = "raised") <=> (ppc = "raised")
          /\ gpick.pc = "returned" => gpick.result = result

\* both cores returned a bundle from an unseeded source, the GUI core having
\* replayed the whole tape, with more male names asked for than the file
\* holds and no female name asked for
C11_Witness ==
    /\ gui.pc = "done"
    /\ pc = "done"
    /\ ~cfg.has_seed
    /\ cfg.num_male > Len(gui.male)
    /\ cfg.num_female = 0
    /\ Len(gui.residents.male) = cfg.num_male
    /\ gui.used = Len(tape)
    /\ gui.village = village
    /\ gui.residents = residents

\* both pickers returned the empty list for a positive count of an empty pool
C11_WitnessEmptyPool ==
    /\ gpick.pc = "returned"
    /\ ppc = "returned"
    /\ src = <<>>
    /\ n > 0
    /\ gpick.result = <<>>
    /\ result = <<>>

\* both cores failed in the constructor, on a file that is no JSON
C11_WitnessBothFail ==
    /\ gui.pc = "failed"
    /\ pc = "failed"
    /\ gui.err = "JSONDecodeError"
    /\ err = "ValueError"


====
